---------------------------- MODULE Spec2Model ----------------------------
(***************************************************************************)
(* The POST /returns workflow of vidly-api (routes/returns.js) against the *)
(* rental and movie collections of the entity store.                       *)
(*                                                                         *)
(* A request runs its middleware chain and the handler's code up to the    *)
(* first await in one step; every later step is the completion of one      *)
(* store call together with the handler code that follows it up to the     *)
(* next await.  Requests interleave at these steps: nothing is locked.     *)
(* The last store call is applied in one step and answered in the next,    *)
(* so that the process can die with the stock updated and no response.     *)
(* Time is counted in ticks, TicksPerDay ticks to the day.                 *)
(***************************************************************************)
EXTENDS Integers, Sequences, FiniteSets, TLC

\* ------------------------------------------------------------- bounds
MaxReqs == 2
StartTime == 2
MaxTime == 3
TicksPerDay == 2

\* --------------------------------------------------- program constants
MaxStock == 255

Reqs == 1..MaxReqs
Customers == {"c1"}
Movies == {"m1", "m2"}
RentalIds == {1, 2}
\* Well-formed identifiers: those of stored entities and one of no entity.
ObjectIds == Customers \cup Movies \cup {"unknownId"}
StockChoices == {0, MaxStock}

Absent == <<>>
NoDoc == [none |-> TRUE]
NoRental == 0

\* dailyRentalRate snapshot taken at checkout.
RateOf(m) == IF m = "m1" THEN 2 ELSE 0

VARIABLES
    rentals,   \* store: rental collection, RentalIds -> rental document
    stock,     \* store: numberInStock of every movie
    now,       \* the clock
    pc,        \* per request: idle, lookup, save, update, respond, done, crashed
    req,       \* per request: the token and body received
    rid,       \* per request: the _id of the rental its lookup returned
    doc,       \* per request: the in-memory rental document of the handler
    resp,      \* per request: the response sent
    log,       \* per request: the store calls issued, in order
    errs,      \* per request: how often the error handler was given a fault
    applied,   \* per request: stock increments the store applied for it
    faults,    \* per request: store calls of it that were rejected
    sent,      \* per request: how many responses were sent
    before,    \* per request: the requests already answered when it arrived
    peers,     \* per request: requests past the check, not yet saved, for the
               \* same rental when this one passed the check
    stock0     \* numberInStock of every movie at the start

vars == <<rentals, stock, now, pc, req, rid, doc, resp, log, errs, applied,
          faults, sent, before, peers, stock0>>

\* --------------------------------------------------------- the rental

\* moment().diff(dateOut, "days"): whole days, truncated.
RentalDays(dateOut, t) == (t - dateOut) \div TicksPerDay

\* Rental.return(): dateReturned = now, rentalFee = days * dailyRentalRate.
Return(rental, t) ==
    [rental EXCEPT !.dateReturned = <<t>>,
                   !.rentalFee = <<RentalDays(rental.dateOut, t) * rental.rate>>]

Matches(store, customerId, movieId) ==
    {id \in RentalIds : store[id].customer = customerId /\ store[id].movie = movieId}

\* Rental.lookup(customerId, movieId): the most recent checkout of the pair.
Lookup(store, customerId, movieId) ==
    LET ms == Matches(store, customerId, movieId)
    IN  IF ms = {} THEN NoRental
        ELSE CHOOSE id \in ms : \A o \in ms : store[o].dateOut <= store[id].dateOut

OpenRental(m, c, d) ==
    [customer |-> c, movie |-> m, rate |-> RateOf(m), dateOut |-> d,
     dateReturned |-> Absent, rentalFee |-> Absent]

\* The stores the checkout workflow can have left: the first rental checked
\* out at time 0 and the second at StartTime (two checkouts of one pair are
\* at different times), each open or returned, a returned one with both
\* fields set by Return.
InitRentals ==
    {s \in [RentalIds -> UNION {{OpenRental(m, c, d), Return(OpenRental(m, c, d), StartTime)} :
                                  <<m, c, d>> \in Movies \X Customers \X {0, StartTime}}] :
        /\ s[1].movie = "m1"
        /\ s[1].dateOut = 0
        /\ s[2].dateOut = StartTime}

\* ------------------------------------------------------- the requests

Inputs ==
    {[token |-> "valid", customerId |-> "c1", movieId |-> m] : m \in Movies \cup {"unknownId"}}
    \cup {[token |-> "valid", customerId |-> "malformed", movieId |-> "m1"],
          [token |-> "invalid", customerId |-> "c1", movieId |-> "m1"],
          [token |-> "none", customerId |-> "c1", movieId |-> "missing"]}

NoInput == [token |-> "none", customerId |-> "missing", movieId |-> "missing"]
NoResp == [status |-> 0, text |-> "", rental |-> NoDoc]

\* validateReturn: customerId and movieId are required object ids.
ValidateReturn(body) ==
    body.customerId \in ObjectIds /\ body.movieId \in ObjectIds

\* The middleware array of the route, in the order it runs.
MiddlewareSwapped == <<"validate", "auth">>
Middleware == <<"auth", "validate">>

\* auth: no token, or a token that does not verify.
\* validate(validateReturn): the validator reports an error.
Rejects(mw, in) ==
    IF mw = "auth" THEN in.token # "valid" ELSE ~ValidateReturn(in)

Rejection(mw) ==
    IF mw = "auth" THEN [status |-> 401, text |-> "Access denied", rental |-> NoDoc]
    ELSE [status |-> 400, text |-> "validation error", rental |-> NoDoc]

FirstReject(in) ==
    LET bad == {i \in DOMAIN Middleware : Rejects(Middleware[i], in)}
    IN  IF bad = {} THEN 0 ELSE CHOOSE i \in bad : \A j \in bad : i <= j

\* if (!rental) return res.status(404).send("Rental not found")
NotFoundResponseWrongStatus == [status |-> 400, text |-> "Rental not found", rental |-> NoDoc]
NotFoundResponse == [status |-> 404, text |-> "Rental not found", rental |-> NoDoc]

\* if (rental.dateReturned)
AlreadyReturnedNever(rental) == FALSE
AlreadyReturned(rental) == rental.dateReturned # Absent

AlreadyResponse == [status |-> 400, text |-> "Return already processed", rental |-> NoDoc]

\* rental.save(): the modified paths of the document are written.
SaveWriteNothing(stored, d) == stored
SaveWriteDateOnly(stored, d) == [stored EXCEPT !.dateReturned = d.dateReturned]
SaveWrite(stored, d) ==
    [stored EXCEPT !.dateReturned = d.dateReturned, !.rentalFee = d.rentalFee]

\* Movie.update({ _id: rental.movie._id }, { $inc: { numberInStock: 1 } })
UpdateSelectorCustomer(d) == d.customer
UpdateSelector(d) == d.movie

IncByTwo(n) == n + 2
IncBy(n) == n + 1

\* res.send(rental)
SuccessResponse(d) == [status |-> 200, text |-> "", rental |-> d]

\* The generic error middleware: a 500.
FaultResponse == [status |-> 500, text |-> "Something failed", rental |-> NoDoc]

\* A store call of the request is pending.
Pending(r) == pc[r] \in {"lookup", "save", "update"}

InFlight(r) == Pending(r) \/ pc[r] = "respond"

\* res.send(...)
Send(r, response) ==
    /\ resp' = [resp EXCEPT ![r] = response]
    /\ sent' = [sent EXCEPT ![r] = @ + 1]

Init ==
    /\ rentals \in InitRentals
    /\ \E n \in StockChoices : stock = [m \in Movies |-> n]
    /\ stock0 = stock
    /\ now = StartTime
    /\ pc = [r \in Reqs |-> "idle"]
    /\ req = [r \in Reqs |-> NoInput]
    /\ rid = [r \in Reqs |-> NoRental]
    /\ doc = [r \in Reqs |-> NoDoc]
    /\ resp = [r \in Reqs |-> NoResp]
    /\ log = [r \in Reqs |-> <<>>]
    /\ errs = [r \in Reqs |-> 0]
    /\ applied = [r \in Reqs |-> 0]
    /\ faults = [r \in Reqs |-> 0]
    /\ sent = [r \in Reqs |-> 0]
    /\ before = [r \in Reqs |-> {}]
    /\ peers = [r \in Reqs |-> {}]

\* A request arrives: auth, validate, then the handler up to its first await.
Receive(r, in) ==
    /\ pc[r] = "idle"
    /\ \A o \in Reqs : o < r => pc[o] # "idle"
    /\ req' = [req EXCEPT ![r] = in]
    /\ before' = [before EXCEPT ![r] = {o \in Reqs : pc[o] = "done"}]
    /\ LET i == FirstReject(in)
       IN  IF i # 0
           THEN /\ Send(r, Rejection(Middleware[i]))
                /\ pc' = [pc EXCEPT ![r] = "done"]
                /\ log' = log
           ELSE /\ pc' = [pc EXCEPT ![r] = "lookup"]
                /\ log' = [log EXCEPT ![r] = Append(@, "lookup")]
                /\ UNCHANGED <<resp, sent>>
    /\ UNCHANGED <<rentals, stock, now, rid, doc, errs, applied, faults, peers, stock0>>

\* Rental.lookup resolves; the handler runs to rental.save().
LookupDone(r) ==
    /\ pc[r] = "lookup"
    /\ LET found == Lookup(rentals, req[r].customerId, req[r].movieId)
       IN  IF found = NoRental
           THEN /\ Send(r, NotFoundResponse)
                /\ pc' = [pc EXCEPT ![r] = "done"]
                /\ UNCHANGED <<rid, doc, log, peers>>
           ELSE IF AlreadyReturned(rentals[found])
           THEN /\ Send(r, AlreadyResponse)
                /\ pc' = [pc EXCEPT ![r] = "done"]
                /\ rid' = [rid EXCEPT ![r] = found]
                /\ UNCHANGED <<doc, log, peers>>
           ELSE /\ doc' = [doc EXCEPT ![r] = Return(rentals[found], now)]
                /\ rid' = [rid EXCEPT ![r] = found]
                /\ peers' = [peers EXCEPT ![r] =
                                {o \in Reqs : pc[o] = "save" /\ rid[o] = found}]
                /\ pc' = [pc EXCEPT ![r] = "save"]
                /\ log' = [log EXCEPT ![r] = Append(@, "save")]
                /\ UNCHANGED <<resp, sent>>
    /\ UNCHANGED <<rentals, stock, now, req, errs, applied, faults, before, stock0>>

\* rental.save() resolves; the handler issues Movie.update.
SaveDone(r) ==
    /\ pc[r] = "save"
    /\ rentals' = [rentals EXCEPT ![rid[r]] = SaveWrite(@, doc[r])]
    /\ pc' = [pc EXCEPT ![r] = "update"]
    /\ log' = [log EXCEPT ![r] = Append(@, "update")]
    /\ UNCHANGED <<stock, now, req, rid, doc, resp, errs, applied, faults, sent,
                   before, peers, stock0>>

\* The store applies Movie.update.
UpdateDone(r) ==
    /\ pc[r] = "update"
    /\ stock' = [m \in Movies |->
                    IF m = UpdateSelector(doc[r]) THEN IncBy(stock[m]) ELSE stock[m]]
    /\ applied' = [applied EXCEPT ![r] = @ + 1]
    /\ pc' = [pc EXCEPT ![r] = "respond"]
    /\ UNCHANGED <<rentals, now, req, rid, doc, resp, log, errs, faults, sent,
                   before, peers, stock0>>

\* The handler resumes after Movie.update and sends the rental.
Respond(r) ==
    /\ pc[r] = "respond"
    /\ Send(r, SuccessResponse(doc[r]))
    /\ pc' = [pc EXCEPT ![r] = "done"]
    /\ UNCHANGED <<rentals, stock, now, req, rid, doc, log, errs, applied, faults,
                   before, peers, stock0>>

\* try { await handler(req, res) } catch (ex) { next(ex) }
AsyncCatchSwallow(r) ==
    /\ pc' = [pc EXCEPT ![r] = "done"]
    /\ UNCHANGED <<resp, sent, errs>>
AsyncCatch(r) ==
    /\ errs' = [errs EXCEPT ![r] = @ + 1]
    /\ Send(r, FaultResponse)
    /\ pc' = [pc EXCEPT ![r] = "done"]

\* The pending store call of a request rejects.
StoreFault(r) ==
    /\ Pending(r)
    /\ faults' = [faults EXCEPT ![r] = @ + 1]
    /\ AsyncCatch(r)
    /\ UNCHANGED <<rentals, stock, now, req, rid, doc, log, applied, before, peers, stock0>>

\* The process dies: every request in flight is lost without a response.
Crash ==
    /\ \E r \in Reqs : InFlight(r)
    /\ pc' = [r \in Reqs |-> IF InFlight(r) THEN "crashed" ELSE pc[r]]
    /\ UNCHANGED <<rentals, stock, now, req, rid, doc, resp, log, errs, applied,
                   faults, sent, before, peers, stock0>>

Tick ==
    /\ now < MaxTime
    /\ now' = now + 1
    /\ UNCHANGED <<rentals, stock, pc, req, rid, doc, resp, log, errs, applied,
                   faults, sent, before, peers, stock0>>

Next ==
    \/ \E r \in Reqs, in \in Inputs : Receive(r, in)
    \/ \E r \in Reqs : LookupDone(r)
    \/ \E r \in Reqs : SaveDone(r)
    \/ \E r \in Reqs : UpdateDone(r)
    \/ \E r \in Reqs : Respond(r)
    \/ \E r \in Reqs : StoreFault(r)
    \/ Crash
    \/ Tick

Spec == Init /\ [][Next]_vars

\* ------------------------------------------------------------ claims

Count(r, call) == Cardinality({i \in DOMAIN log[r] : log[r][i] = call})
Returned(rental) == rental.dateReturned # Absent /\ rental.rentalFee # Absent
SamePair(r1, r2) ==
    req[r1].customerId = req[r2].customerId /\ req[r1].movieId = req[r2].movieId
Finished(r) == pc[r] = "done" /\ faults[r] = 0

\* C1: two returns of one (customerId, movieId) handled one after the other,
\* the first having found the rental not yet returned and neither hitting a
\* store fault: the first is answered 200, the second 400 "Return already
\* processed" for the same rental, and the store applied one stock increment
\* for the two of them.
C1_SequentialReturns ==
    \A r1 \in Reqs, r2 \in Reqs :
        ( /\ r1 \in before[r2]
          /\ SamePair(r1, r2)
          /\ req[r2].token = "valid"
          /\ doc[r1] # NoDoc
          /\ Finished(r1) /\ Finished(r2) )
        => /\ resp[r1].status = 200
           /\ resp[r2] = [status |-> 400, text |-> "Return already processed",
                          rental |-> NoDoc]
           /\ rid[r2] = rid[r1]
           /\ applied[r1] + applied[r2] = 1

C1_Witness ==
    \E r1 \in Reqs, r2 \in Reqs :
        /\ r1 \in before[r2] /\ SamePair(r1, r2)
        /\ resp[r1].status = 200
        /\ resp[r2].status = 400 /\ resp[r2].text = "Return already processed"
        /\ stock[doc[r1].movie] = stock0[doc[r1].movie] + 1

\* C2: the save of a return stores dateReturned, a time not before dateOut,
\* and a rentalFee that is not negative; the stock update that follows adds
\* exactly 1 to the rental's movie and to no other, and the request is
\* answered 200 with the rental as returned.
C2_ReturnProcessed ==
    [][\A r \in Reqs :
        /\ (pc[r] = "update" /\ pc'[r] = "done") => faults'[r] = 1
        /\ (pc[r] = "save" /\ pc'[r] = "update") =>
              LET s == rentals'[rid[r]]
              IN  /\ Len(s.dateReturned) = 1
                  /\ s.dateReturned[1] >= s.dateOut /\ s.dateReturned[1] <= now
                  /\ Len(s.rentalFee) = 1 /\ s.rentalFee[1] >= 0
                  /\ \A o \in RentalIds \ {rid[r]} : rentals'[o] = rentals[o]
        /\ (pc[r] = "update" /\ pc'[r] = "respond") =>
              stock' = [stock EXCEPT ![rentals[rid[r]].movie] = @ + 1]
        /\ (pc[r] = "respond" /\ pc'[r] = "done") =>
              /\ resp'[r].status = 200
              /\ Returned(resp'[r].rental)
              /\ resp'[r].rental.dateReturned[1] >= resp'[r].rental.dateOut
              /\ resp'[r].rental.rentalFee[1] >= 0
              /\ [resp'[r].rental EXCEPT !.dateReturned = Absent,
                                         !.rentalFee = Absent]
                   = [rentals[rid[r]] EXCEPT !.dateReturned = Absent,
                                             !.rentalFee = Absent]
              /\ applied[r] = 1 /\ Returned(rentals[rid[r]])
      ]_vars

C2_Witness ==
    \E r \in Reqs :
        /\ resp[r].status = 200
        /\ rentals[rid[r]].dateReturned = resp[r].rental.dateReturned
        /\ rentals[rid[r]].rentalFee = <<2>>
        /\ stock[rentals[rid[r]].movie] = stock0[rentals[rid[r]].movie] + 1

\* C3: a request whose (customerId, movieId) matches no rental is answered
\* 404 "Rental not found" when its lookup resolves, in a step that changes
\* no rental and no stock; only such requests get a 404, and a request
\* answered 404 has issued the lookup and nothing else.
C3_NotFound ==
    [][\A r \in Reqs :
        /\ ( /\ pc[r] = "lookup" /\ pc'[r] = "done" /\ faults'[r] = 0
             /\ ~ \E id \in RentalIds : /\ rentals[id].customer = req[r].customerId
                                        /\ rentals[id].movie = req[r].movieId )
           => /\ resp'[r].status = 404 /\ resp'[r].text = "Rental not found"
              /\ rentals' = rentals /\ stock' = stock
        /\ resp'[r].status = 404
           => /\ ~ \E id \in RentalIds : /\ rentals'[id].customer = req'[r].customerId
                                         /\ rentals'[id].movie = req'[r].movieId
              /\ log'[r] = <<"lookup">> /\ applied'[r] = 0 /\ pc'[r] = "done"
      ]_vars

C3_Witness ==
    \E r \in Reqs :
        /\ resp[r].status = 404 /\ req[r].movieId = "unknownId"
        /\ \E id \in RentalIds : rentals[id].dateReturned = Absent
        /\ stock = stock0

\* C4: dateReturned and rentalFee of a stored rental are both absent or both
\* set, and once set no step changes them.
C4_SetOnce ==
    [][\A id \in RentalIds :
        /\ (rentals'[id].dateReturned = Absent) <=> (rentals'[id].rentalFee = Absent)
        /\ rentals[id].dateReturned # Absent
           => /\ rentals'[id].dateReturned = rentals[id].dateReturned
              /\ rentals'[id].rentalFee = rentals[id].rentalFee
      ]_vars

\* C5: a request issues the stock update only after its save has completed:
\* whenever the update was issued or applied for a rental, through a crash
\* or a fault at any point, that rental is stored as returned, never the
\* reverse.
C5_SaveBeforeIncrement ==
    \A r \in Reqs :
        /\ Count(r, "update") > 0 =>
              /\ log[r] = <<"lookup", "save", "update">>
              /\ Returned(rentals[rid[r]])
        /\ applied[r] > 0 => Count(r, "update") > 0 /\ Returned(rentals[rid[r]])

C5_Witness ==
    \E r \in Reqs :
        /\ pc[r] = "crashed" /\ log[r] = <<"lookup", "save", "update">>
        /\ Returned(rentals[rid[r]])
        /\ applied[r] = 0 /\ stock = stock0

\* C6: when a request passes the dateReturned check while another request
\* for the same rental has passed it and not yet saved, nothing stops
\* either: if both run to the end without a store fault both are answered
\* 200 and the movie's stock has been incremented twice for the one rental.
C6_DoubleIncrement ==
    \A r1 \in Reqs, r2 \in Reqs :
        (r1 \in peers[r2] /\ Finished(r1) /\ Finished(r2))
        => /\ r1 # r2 /\ rid[r1] = rid[r2]
           /\ resp[r1].status = 200 /\ resp[r2].status = 200
           /\ applied[r1] = 1 /\ applied[r2] = 1
           /\ stock[rentals[rid[r1]].movie] >= stock0[rentals[rid[r1]].movie] + 2

C6_Witness ==
    \E r1 \in Reqs, r2 \in Reqs :
        /\ r1 \in peers[r2] /\ rid[r1] = rid[r2]
        /\ resp[r1].status = 200 /\ resp[r2].status = 200
        /\ stock[rentals[rid[r1]].movie] = stock0[rentals[rid[r1]].movie] + 2

\* C7: a request without a valid token is answered 401, whatever its body;
\* with a valid token, one whose customerId or movieId is missing or
\* malformed is answered 400; a request rejected either way has issued no
\* store call, and the step that receives a request changes no rental and no
\* stock.
C7_Gate ==
    [][\A r \in Reqs :
        /\ (pc[r] = "idle" /\ pc'[r] # "idle") =>
              LET in == req'[r]
                  badBody == \/ in.customerId \in {"missing", "malformed"}
                             \/ in.movieId \in {"missing", "malformed"}
              IN  /\ in.token # "valid" =>
                        resp'[r].status = 401 /\ pc'[r] = "done" /\ log'[r] = <<>>
                  /\ (in.token = "valid" /\ badBody) =>
                        /\ resp'[r].status = 400 /\ resp'[r].text = "validation error"
                        /\ pc'[r] = "done" /\ log'[r] = <<>>
                  /\ (in.token = "valid" /\ ~badBody) => log'[r] = <<"lookup">>
                  /\ rentals' = rentals /\ stock' = stock
        /\ (resp[r].status = 401 \/ resp[r].text = "validation error") =>
              /\ log'[r] = <<>> /\ applied'[r] = 0 /\ rid'[r] = NoRental
      ]_vars

C7_Witness ==
    /\ \E r \in Reqs : resp[r].status = 401 /\ req[r].movieId = "missing"
    /\ \E r \in Reqs : resp[r].status = 400 /\ req[r].token = "valid"
                       /\ req[r].customerId = "malformed"
    /\ stock = stock0

\* C8: each of lookup, save and update is issued at most once per request;
\* the step in which a store call is rejected hands the fault to the error
\* handler once, answers 500, issues nothing and changes no rental and no
\* stock; after it the request does nothing more.  A failed save leaves no
\* update issued; a failed update leaves the rental returned and no
\* increment of the request applied; a faulted request has no 200.
C8_Faults ==
    [][\A r \in Reqs :
        /\ faults'[r] > faults[r] =>
              /\ faults[r] = 0
              /\ errs'[r] = errs[r] + 1
              /\ resp'[r].status = 500 /\ sent'[r] = 1
              /\ pc'[r] = "done" /\ log'[r] = log[r]
              /\ rentals' = rentals /\ stock' = stock
        /\ \A c \in {"lookup", "save", "update"} : Count(r, c)' <= 1
        /\ errs'[r] = faults'[r]
        /\ faults[r] > 0 =>
              /\ log'[r] = log[r] /\ pc'[r] = "done" /\ resp'[r] = resp[r]
              /\ applied'[r] = 0
              /\ log[r] = <<"lookup", "save", "update">> => Returned(rentals'[rid[r]])
      ]_vars

C8_Witness ==
    /\ \E r \in Reqs : /\ faults[r] = 1 /\ log[r] = <<"lookup", "save", "update">>
                       /\ resp[r].status = 500 /\ Returned(rentals[rid[r]])
    /\ \E r \in Reqs : /\ faults[r] = 1 /\ log[r] = <<"lookup", "save">>
                       /\ resp[r].status = 500 /\ ~Returned(rentals[rid[r]])
    /\ stock = stock0

\* C9: every movie's numberInStock is an integer from 0 to 255.
C9_StockBounded ==
    \A m \in Movies : stock[m] \in 0..MaxStock

\* C10: with no store fault and no crash, once no request is in flight every
\* request received has sent exactly one response and every movie's
\* numberInStock is its initial value plus the number of requests answered
\* 200 for it; a request answered 400, 401 or 404 had no increment applied.
C10_Conservation ==
    ( /\ \A r \in Reqs : pc[r] \in {"idle", "done"}
      /\ \A r \in Reqs : faults[r] = 0 )
    => /\ \A r \in Reqs : sent[r] = (IF pc[r] = "done" THEN 1 ELSE 0)
       /\ \A m \in Movies :
             stock[m] = stock0[m]
                          + Cardinality({r \in Reqs : /\ resp[r].status = 200
                                                      /\ resp[r].rental.movie = m})
       /\ \A r \in Reqs : resp[r].status \in {400, 401, 404} => applied[r] = 0

C10_Witness ==
    /\ \A r \in Reqs : pc[r] = "done" /\ faults[r] = 0
    /\ \E r \in Reqs : resp[r].status = 200
    /\ \E r \in Reqs : resp[r].status = 404
    /\ \E m \in Movies : stock[m] = stock0[m] + 1

=============================================================================
